---- MODULE Spec2Model ----
(***************************************************************************)
(* The retrieval-and-validation pipeline of mcp-factcheck: the tool        *)
(* handlers validate_content, validate_code and search_spec, the chunked   *)
(* (aggregated) validation loop, the three analyzers and the file-backed   *)
(* vector store with its cosine-similarity search.                         *)
(*                                                                         *)
(* float64 results are modelled as exact fractions [n, d]; 0/0 is NaN and  *)
(* every ordered comparison with NaN is false, as in IEEE 754.  Vector     *)
(* components carry a magnitude class, so that the underflow and overflow  *)
(* of their products is kept; rounding of the mantissa is not modelled.    *)
(***************************************************************************)
EXTENDS Integers, Sequences, FiniteSets, TLC

\* ------------------------------------------------------------------ bounds
MaxChunks == 2
MaxCorpus == 2
MaxTopK == 3
MaxInteractions == 2

\* ------------------------------------------------------- program constants
ChunkThreshold == 500
ContentTopK == 5
ChunkTopK == 3
CodeTopK == 8
DefaultTopK == 5
ContentMaxMatches == 3
ChunkMaxMatches == 2
CodeMaxMatches == 3
PatternDivisor == 3
KeepLast == 100

\* ------------------------------------------------------------ float64 model
Rat(n, d) == [n |-> n, d |-> d]

Zero == Rat(0, 1)

IsNaN(a) == a.d = 0 /\ a.n = 0

Abs(x) == IF x < 0 THEN -x ELSE x

RECURSIVE GCD(_, _)
GCD(a, b) == IF b = 0 THEN a ELSE GCD(b, a % b)

\* the fraction n/d in lowest terms: the same float64 value
Reduce(n, d) ==
    IF d = 0 THEN Rat(n, d)
    ELSE LET g == GCD(Abs(n), d) IN Rat(n \div g, d \div g)

RatAdd(a, b) == Reduce(a.n * b.d + b.n * a.d, a.d * b.d)

RatMul(a, b) == Reduce(a.n * b.n, a.d * b.d)

\* a / float64(k) for a count k >= 0; 0/0 gives NaN
RatDivInt(a, k) == Reduce(a.n, a.d * k)

RatGT(a, b) == a.d > 0 /\ b.d > 0 /\ a.n * b.d > b.n * a.d

RatLT(a, b) == a.d > 0 /\ b.d > 0 /\ a.n * b.d < b.n * a.d

RatEq(a, b) == a.d > 0 /\ b.d > 0 /\ a.n * b.d = b.n * a.d

RatGE(a, b) == RatGT(a, b) \/ RatEq(a, b)

RatLE(a, b) == RatLT(a, b) \/ RatEq(a, b)

Min(a, b) == IF a < b THEN a ELSE b

\* A vector component is the float64 m * 2^(600*e).  e = 0 is an ordinary
\* magnitude; the square of a component with e = -1 is below the smallest
\* subnormal (2^-1200 < 2^-1074) and the square of one with e = 1 is above the
\* largest float64 (2^1200 > 2^1024).  e = 2 marks an infinity of sign m, and
\* [m = 0, e = 2] is NaN.
Flt(m, e) == [m |-> m, e |-> e]

FltZero == Flt(0, 0)

FltNaN == Flt(0, 2)

Sign(m) == IF m > 0 THEN 1 ELSE IF m < 0 THEN -1 ELSE 0

\* the float64 nearest to m * 2^(600*e)
FltRound(m, e) ==
    IF m = 0 THEN FltZero
    ELSE IF e >= 2 THEN Flt(Sign(m), 2)
    ELSE IF e <= -2 THEN FltZero
    ELSE Flt(m, e)

\* x * y; Inf * 0 and NaN * y are NaN
FltMul(x, y) ==
    IF x.e = 2 \/ y.e = 2 THEN Flt(Sign(x.m) * Sign(y.m), 2)
    ELSE FltRound(x.m * y.m, x.e + y.e)

\* x + y; the smaller of two magnitude classes is absorbed, Inf + -Inf is NaN
FltAdd(x, y) ==
    IF x.e = 2 /\ y.e = 2 THEN (IF x.m = y.m THEN x ELSE FltNaN)
    ELSE IF x.e = 2 THEN x
    ELSE IF y.e = 2 THEN y
    ELSE IF x.m = 0 THEN y
    ELSE IF y.m = 0 THEN x
    ELSE IF x.e = y.e THEN FltRound(x.m + y.m, x.e)
    ELSE IF x.e > y.e THEN x ELSE y

\* ------------------------------------------------------------ spec versions
ValidSpecVersions == <<"draft", "2025-06-18", "2025-03-26", "2024-11-05">>

DefaultSpecVersion == "2025-06-18"

IsValidSpecVersionAny(version) == TRUE

IsValidSpecVersion(version) ==
    \E i \in 1..Len(ValidSpecVersions) : ValidSpecVersions[i] = version

\* ------------------------------------------------------------- vector store
\* Embedding vectors have perfect-square norms, so math.Sqrt is exact on them.
Vec(ints) == [i \in 1..Len(ints) |-> Flt(ints[i], 0)]

\* the vector ints * 2^(600*e)
Scaled(ints, e) == [i \in 1..Len(ints) |-> FltRound(ints[i], e)]

CorpusVectors ==
    {Vec(<<1, 0>>), Vec(<<3, 4>>), Vec(<<4, 3>>), Vec(<<-1, 0>>)}

QueryVectors == {Vec(<<1, 0>>), Vec(<<0, 1>>)}

Sqrt(n) == CHOOSE r \in 0..n : r * r = n

\* math.Sqrt of a sum of squares
FltSqrt(x) == IF x.e = 2 THEN x ELSE Flt(Sqrt(x.m), 0)

\* the accumulation a[1]*b[1] + ... + a[i]*b[i] of the loop, left to right
RECURSIVE SumProd(_, _, _)
SumProd(a, b, i) ==
    IF i = 0 THEN FltZero
    ELSE FltAdd(SumProd(a, b, i - 1), FltMul(a[i], b[i]))

\* x / y for a dot product x and a product of norms y that is not zero.  A
\* vector of the model has all its components in one magnitude class, so a
\* finite y comes with x in the ordinary class.
FltQuot(x, y) ==
    IF (x.e = 2 /\ x.m = 0) \/ (y.e = 2 /\ y.m = 0) THEN Rat(0, 0)
    ELSE IF y.e = 2 THEN (IF x.e = 2 THEN Rat(0, 0) ELSE Zero)
    ELSE IF x.e = 2 THEN Rat(x.m, 0)
    ELSE Rat(x.m, y.m)

cosineSimilarity(a, b) ==
    IF Len(a) # Len(b) THEN Zero
    ELSE LET dotProduct == SumProd(a, b, Len(a))
             normA == SumProd(a, a, Len(a))
             normB == SumProd(b, b, Len(a))
         IN  IF normA = FltZero \/ normB = FltZero THEN Zero
             ELSE FltQuot(dotProduct,
                          FltMul(FltSqrt(normA), FltSqrt(normB)))

\* EmbeddedChunk and SpecEmbedding as GenerateSpecEmbeddings fills them; the
\* chunk id is the chunk's index in the corpus.  FilePath, Section and
\* Metadata, which no search reads, are left out.
MkChunk(version, i, vec) ==
    [ID |-> i, Version |-> version, Content |-> <<"content", i>>,
     Embedding |-> vec]

MkCorpus(version, vecs) ==
    [Version |-> version,
     Chunks |-> [i \in 1..Len(vecs) |-> MkChunk(version, i, vecs[i])],
     Count |-> Len(vecs)]

VecSeqs == UNION {[1..n -> CorpusVectors] : n \in 0..MaxCorpus}

\* encoding/json: a struct becomes an object keyed by its json tags, a
\* float64 becomes a decimal literal that parses back to the same float64;
\* NaN and the infinities have no literal.
JsonNumber(x) == [number |-> <<x.m, x.e>>]

ParseNumber(j) == Flt(j.number[1], j.number[2])

EncodeChunkNoEmbedding(c) ==
    [id |-> c.ID, version |-> c.Version, content |-> c.Content,
     embedding |-> <<>>]

EncodeChunk(c) ==
    [id |-> c.ID, version |-> c.Version, content |-> c.Content,
     embedding |-> [i \in 1..Len(c.Embedding) |-> JsonNumber(c.Embedding[i])]]

Encodable(specEmbedding) ==
    \A i \in 1..Len(specEmbedding.Chunks) :
        \A k \in 1..Len(specEmbedding.Chunks[i].Embedding) :
            specEmbedding.Chunks[i].Embedding[k].e # 2

Encode(specEmbedding) ==
    [version |-> specEmbedding.Version,
     chunks |-> [i \in 1..Len(specEmbedding.Chunks) |->
                   EncodeChunk(specEmbedding.Chunks[i])],
     count |-> specEmbedding.Count]

DecodeChunk(j) ==
    [ID |-> j.id, Version |-> j.version, Content |-> j.content,
     Embedding |-> [i \in 1..Len(j.embedding) |-> ParseNumber(j.embedding[i])]]

Decode(doc) ==
    [Version |-> doc.version,
     Chunks |-> [i \in 1..Len(doc.chunks) |-> DecodeChunk(doc.chunks[i])],
     Count |-> doc.count]

\* A file of the data directory holds a JSON document ("ok") or bytes that do
\* not decode ("malformed", whose json field is not read); a version without
\* a file is not in the directory.
NoDocument == [version |-> "", chunks |-> <<>>, count |-> 0]

OkFile(specEmbedding) == [state |-> "ok", json |-> Encode(specEmbedding)]

MalformedFile == [state |-> "malformed", json |-> NoDocument]

WriteFile(dir, version, file) ==
    [v \in DOMAIN dir \cup {version} |->
        IF v = version THEN file ELSE dir[v]]

\* Store.Store: the outcomes of writing <Version>.json.  os.Create may fail;
\* once it has truncated the file, an encoding error leaves the file empty.
Store(dir, specEmbedding) ==
    {[err |-> "failed to create file", dir |-> dir],
     IF Encodable(specEmbedding)
     THEN [err |-> "",
           dir |-> WriteFile(dir, specEmbedding.Version,
                             OkFile(specEmbedding))]
     ELSE [err |-> "failed to encode spec embedding",
           dir |-> WriteFile(dir, specEmbedding.Version, MalformedFile)]}

LoadMissingAsEmpty(dir, version) ==
    IF version \notin DOMAIN dir \/ dir[version].state = "malformed"
    THEN [err |-> "", spec |-> MkCorpus(version, <<>>)]
    ELSE [err |-> "", spec |-> Decode(dir[version].json)]

\* Load: the decoded corpus, or the error of os.Open / Decode
Load(dir, version) ==
    IF version \notin DOMAIN dir
    THEN [err |-> "failed to open file"]
    ELSE IF dir[version].state = "malformed"
    THEN [err |-> "failed to decode spec embedding"]
    ELSE [err |-> "", spec |-> Decode(dir[version].json)]

\* the less function handed to sort.Slice
\* ListVersions: the name, less ".json", of every file of the directory
ListVersions(dir) == DOMAIN dir

SimilarityLessAsc(x, y) == RatLT(x.Similarity, y.Similarity)

SimilarityLess(x, y) == RatGT(x.Similarity, y.Similarity)

Perms(n) == {p \in [1..n -> 1..n] : \A i, j \in 1..n : i # j => p[i] # p[j]}

\* sort.Slice is not stable: any permutation ordered by less may come out
SortedOrders(results) ==
    LET n == Len(results)
    IN  {[i \in 1..n |-> results[p[i]]] : p \in
            {q \in Perms(n) : \A i, j \in 1..n :
                i < j => ~SimilarityLess(results[q[j]], results[q[i]])}}

ClampTopK(topK, n) == IF topK > n THEN n ELSE topK

RankOf(i) == i

\* Store.Search: the set of results the call can return
Search(dir, version, queryEmbedding, topK) ==
    LET loaded == Load(dir, version)
    IN  IF loaded.err # ""
        THEN {[err |-> "failed to load spec embeddings", panic |-> FALSE,
               results |-> <<>>]}
        ELSE LET chunks == loaded.spec.Chunks
                 scored == [i \in 1..Len(chunks) |->
                              [Chunk |-> chunks[i],
                               Similarity |->
                                  cosineSimilarity(queryEmbedding,
                                                   chunks[i].Embedding),
                               Rank |-> 0]]
                 k == ClampTopK(topK, Len(chunks))
             IN  IF k < 0
                 THEN {[err |-> "", panic |-> TRUE, results |-> <<>>]}
                 ELSE {[err |-> "", panic |-> FALSE,
                        results |-> [i \in 1..k |->
                                       [s[i] EXCEPT !.Rank = RankOf(i)]]] :
                          s \in SortedOrders(scored)}


\* ------------------------------------------------------- embedding provider
\* What the embeddings endpoint answers to one attempt: a failure status, or
\* "ok" with a list of embeddings that may be empty.
ProviderResponses ==
    {[status |-> st, data |-> <<>>] : st \in {"timeout", "5xx", "4xx", "ok"}}
        \cup {[status |-> "ok", data |-> <<q>>] : q \in QueryVectors}

\* the answers the endpoint gives to a first and to a second attempt
ProviderScripts == [1..2 -> ProviderResponses]

\* []float32 to []float64, value by value
Float64s(v) == [i \in 1..Len(v) |-> v[i]]

\* Generator.GenerateEmbedding: one CreateEmbeddings call, its error wrapped
GenerateEmbedding(script) ==
    LET first == script[1]
    IN  IF first.status # "ok"
        THEN [err |-> "failed to create embedding", vec |-> <<>>,
              attempts |-> 1]
        ELSE IF Len(first.data) = 0
        THEN [err |-> "no embedding data returned", vec |-> <<>>,
              attempts |-> 1]
        ELSE [err |-> "", vec |-> Float64s(first.data[1]), attempts |-> 1]

\* What a handler gets from the generator: a vector, or an error.  The
\* handlers test the error against nil and do no more with it than wrap it,
\* so the errors of the generator are one outcome to them.
EmbedOutcomes ==
    {[err |-> IF g.err = "" THEN "" ELSE "failed to create embedding",
      vec |-> g.vec] : g \in {GenerateEmbedding(s) : s \in ProviderScripts}}

\* ------------------------------------------------------------------ results
ValidationResult(isValid, confidence, issues, suggestions, specVersion) ==
    [IsValid |-> isValid, Confidence |-> confidence, Issues |-> issues,
     Suggestions |-> suggestions, SpecVersion |-> specVersion]

\* the zero value of ValidationResult, left in an errored chunk entry
NoValidation == ValidationResult(FALSE, Zero, <<>>, <<>>, "")

RECURSIVE SumSimilarity(_, _)
SumSimilarity(results, i) ==
    IF i = 0 THEN Zero
    ELSE RatAdd(SumSimilarity(results, i - 1), results[i].Similarity)

\* totalSimilarity / float64(len(results))
AvgSimilarity(results) ==
    RatDivInt(SumSimilarity(results, Len(results)), Len(results))

Threshold07 == Rat(7, 10)
Threshold06 == Rat(6, 10)
Threshold05 == Rat(5, 10)
ZeroMatchConfidenceZero == Zero

ZeroMatchConfidence == Rat(1, 10)

\* Topic and Summary are cut from the matched chunk's content, which the
\* chunk id stands for.
Summarize(results, maxMatches) ==
    [i \in 1..Min(maxMatches, Len(results)) |->
        [Topic |-> results[i].Chunk.ID, Relevance |-> results[i].Similarity,
         Summary |-> results[i].Chunk.ID]]

summarizeContentMatches(results, maxMatches) == Summarize(results, maxMatches)

summarizeChunkMatches(results, maxMatches) == Summarize(results, maxMatches)

summarizeCodeMatches(results, maxMatches) == Summarize(results, maxMatches)

\* -------------------------------------------------------- content analyzers
analyzeContentValidationGE(results, specVersion) ==
    IF Len(results) = 0
    THEN ValidationResult(FALSE, ZeroMatchConfidence,
            <<"No relevant MCP specification content found">>, <<>>,
            specVersion)
    ELSE LET avgSimilarity == AvgSimilarity(results)
             isValid == RatGE(avgSimilarity, Threshold07)
         IN  ValidationResult(isValid, avgSimilarity,
                IF isValid THEN <<>>
                ELSE <<"Content may not align with MCP specification">> \o
                     (IF RatLT(avgSimilarity, Threshold05)
                      THEN <<"Low similarity to MCP patterns detected">>
                      ELSE <<>>),
                IF isValid THEN <<>>
                ELSE <<"Review content against MCP specification",
                       "Consider using standard MCP terminology and patterns">>,
                specVersion)

analyzeContentValidation(results, specVersion) ==
    IF Len(results) = 0
    THEN ValidationResult(FALSE, ZeroMatchConfidence,
            <<"No relevant MCP specification content found">>, <<>>,
            specVersion)
    ELSE LET avgSimilarity == AvgSimilarity(results)
             isValid == RatGT(avgSimilarity, Threshold07)
         IN  ValidationResult(isValid, avgSimilarity,
                IF isValid THEN <<>>
                ELSE <<"Content may not align with MCP specification">> \o
                     (IF RatLT(avgSimilarity, Threshold05)
                      THEN <<"Low similarity to MCP patterns detected">>
                      ELSE <<>>),
                IF isValid THEN <<>>
                ELSE <<"Review content against MCP specification",
                       "Consider using standard MCP terminology and patterns">>,
                specVersion)

analyzeChunkValidation(results, specVersion) ==
    IF Len(results) = 0
    THEN ValidationResult(FALSE, ZeroMatchConfidence,
            <<"No relevant MCP specification content found for this section">>,
            <<>>, specVersion)
    ELSE LET avgSimilarity == AvgSimilarity(results)
             isValid == RatGT(avgSimilarity, Threshold07)
         IN  ValidationResult(isValid, avgSimilarity,
                IF isValid THEN <<>>
                ELSE <<"Content section may not align with MCP specification">>
                     \o (IF RatLT(avgSimilarity, Threshold05)
                         THEN <<"Low similarity to MCP patterns detected">>
                         ELSE <<>>),
                IF isValid THEN <<>>
                ELSE <<"Review this section against MCP specification",
                       "Consider using standard MCP terminology">>,
                specVersion)


\* ------------------------------------------------------------ code analyzer
\* The keyword table of analyzeCodeForMCPPatterns.  Three of its keywords
\* have a description that analyzeCodeValidation later counts; "error" stands
\* for the twelve keywords whose description is never counted.
Keywords == {"json-rpc", "tools", "server", "error"}

Description(pattern) ==
    CASE pattern = "json-rpc" -> "JSON-RPC protocol implementation"
      [] pattern = "tools" -> "MCP tools implementation"
      [] pattern = "server" -> "MCP server implementation"
      [] pattern = "error" -> "Error handling patterns"

Languages == {"go", "MCP server"}

\* strings.Contains(s, marker) for the strings that occur in an analysis
Contains(s, marker) ==
    \/ s = marker
    \/ s = "JSON-RPC protocol implementation" /\ marker = "JSON-RPC"
    \/ s = "MCP tools implementation" /\ marker = "MCP tools"
    \/ s = "MCP server implementation" /\ marker = "MCP server"

SeqsOf(S) ==
    {q \in [1..Cardinality(S) -> S] :
        \A i, j \in 1..Cardinality(S) : i # j => q[i] # q[j]}

\* analyzeCodeForMCPPatterns: code is the set of keywords the lower-cased
\* code contains; the range over the Go map visits them in any order.
analyzeCodeForMCPPatterns(code, language) ==
    {[language |-> language,
      found |-> [i \in 1..Len(order) |-> Description(order[i])]] :
        order \in SeqsOf(code)}

AnalysisContains(codeAnalysis, marker) ==
    \/ Contains(codeAnalysis.language, marker)
    \/ \E i \in 1..Len(codeAnalysis.found) :
          Contains(codeAnalysis.found[i], marker)

DetectedPatterns(codeAnalysis) ==
    (IF AnalysisContains(codeAnalysis, "JSON-RPC") THEN <<"JSON-RPC">>
     ELSE <<>>) \o
    (IF AnalysisContains(codeAnalysis, "MCP tools") THEN <<"MCP tools">>
     ELSE <<>>) \o
    (IF AnalysisContains(codeAnalysis, "MCP server") THEN <<"MCP server">>
     ELSE <<>>)

\* fmt.Sprintf("Detected MCP patterns: %s", strings.Join(detected, ", "))
DetectedSuggestion(detected) ==
    CASE detected = <<"JSON-RPC">> -> "Detected MCP patterns: JSON-RPC"
      [] detected = <<"MCP tools">> -> "Detected MCP patterns: MCP tools"
      [] detected = <<"MCP server">> -> "Detected MCP patterns: MCP server"
      [] detected = <<"JSON-RPC", "MCP tools">>
            -> "Detected MCP patterns: JSON-RPC, MCP tools"
      [] detected = <<"JSON-RPC", "MCP server">>
            -> "Detected MCP patterns: JSON-RPC, MCP server"
      [] detected = <<"MCP tools", "MCP server">>
            -> "Detected MCP patterns: MCP tools, MCP server"
      [] OTHER -> "Detected MCP patterns: JSON-RPC, MCP tools, MCP server"

CodeIsValidNoPatterns(avgSimilarity, detectedPatterns) ==
    RatGT(avgSimilarity, Threshold06)

CodeIsValid(avgSimilarity, detectedPatterns) ==
    RatGT(avgSimilarity, Threshold06) /\ Len(detectedPatterns) > 0

CodeConfidence(avgSimilarity, detectedPatterns) ==
    RatMul(avgSimilarity, Rat(Len(detectedPatterns), PatternDivisor))

analyzeCodeValidation(codeAnalysis, results, specVersion) ==
    IF Len(results) = 0
    THEN ValidationResult(FALSE, ZeroMatchConfidence,
            <<"No MCP-related patterns found in code">>, <<>>, specVersion)
    ELSE LET avgSimilarity == AvgSimilarity(results)
             detectedPatterns == DetectedPatterns(codeAnalysis)
             isValid == CodeIsValid(avgSimilarity, detectedPatterns)
             noPatterns == ~isValid /\ Len(detectedPatterns) = 0
             lowSim == ~isValid /\ RatLT(avgSimilarity, Threshold05)
         IN  ValidationResult(isValid,
                CodeConfidence(avgSimilarity, detectedPatterns),
                (IF noPatterns THEN <<"No MCP patterns detected in code">>
                 ELSE <<>>) \o
                (IF lowSim
                 THEN <<"Code structure doesn't match MCP specification patterns">>
                 ELSE <<>>),
                (IF noPatterns
                 THEN <<"Ensure code implements MCP protocol patterns">>
                 ELSE <<>>) \o
                (IF lowSim
                 THEN <<"Review MCP specification for proper implementation patterns">>
                 ELSE <<>>) \o
                (IF isValid /\ Len(detectedPatterns) > 0
                 THEN <<DetectedSuggestion(detectedPatterns)>>
                 ELSE <<>>),
                specVersion)

\* ------------------------------------------------------------------ chunker
\* A content string is its length in bytes, len(content), and whether
\* strings.TrimSpace leaves nothing of it.
Contents ==
    {[len |-> 0, blank |-> TRUE], [len |-> 3, blank |-> TRUE],
     [len |-> 4, blank |-> FALSE], [len |-> 500, blank |-> FALSE],
     [len |-> 501, blank |-> FALSE]}

ContentChunk(content, i) ==
    [ID |-> <<"chunk", i>>, Text |-> [of |-> content, part |-> i],
     Position |-> i, Type |-> "text_chunk"]

\* ChunkContent: no chunk for blank content; otherwise one chunk per document
\* of the langchaingo splitter, whose document count the library decides.
ChunkContent(content) ==
    IF content.blank THEN {<<>>}
    ELSE {[i \in 1..n |-> ContentChunk(content, i - 1)] : n \in 1..MaxChunks}

\* --------------------------------------------------------------- formatting
\* json.MarshalIndent fails on NaN; both formatters drop the error and return
\* the empty string.
FormatValidationResult(result, matches) ==
    IF IsNaN(result.Confidence)
    THEN [kind |-> "empty"]
    ELSE [kind |-> "single", validation |-> result, references |-> matches]

FormatChunkedValidationResult(aggregated) ==
    IF IsNaN(aggregated.Overall.Confidence)
    THEN [kind |-> "empty"]
    ELSE [kind |-> "chunked",
          total_chunks |-> Len(aggregated.ChunkResults),
          overall |-> aggregated.Overall,
          spec_version |-> aggregated.SpecVersion,
          chunk_details |-> aggregated.ChunkResults]


\* -------------------------------------------------------------------- state
VARIABLES
    files,            \* the data directory: version -> corpus file
    pc,               \* "idle", "chunkLoop" (inside the chunk loop) or "done"
    req,              \* the request being served, defaults applied
    resp,             \* what the handler returned
    providerCalls,    \* embedding-provider calls made for req
    storeLoads,       \* corpus loads made for req
    outcomes,         \* per provider call of req: text sent, vector, matches
    chunks,           \* chunkingResult.Chunks
    next,             \* position in the range over chunks
    chunkResults,
    totalSimilarity,
    totalChunks,
    strategy,         \* the span attribute validation.strategy of req
    similarityAvg,    \* the mean similarity set on each retrieval span of req
    cancelled,        \* the context of req is done (cancelled or timed out)
    ds,               \* the DebugServer: mu, interactions, stats, clients
    handler,          \* per goroutine of the debug server: where it stands
    sent,             \* per goroutine: what it last wrote to its peer
    call,             \* the store or generator method called directly
    ret               \* what that method returned

vars == <<files, pc, req, resp, providerCalls, storeLoads, outcomes, chunks,
          next, chunkResults, totalSimilarity, totalChunks, strategy,
          similarityAvg, cancelled, ds, handler, sent, call, ret>>

debugVars == <<ds, handler, sent>>

\* the variables of a tool request
requestVars == <<pc, req, resp, providerCalls, storeLoads, outcomes, chunks,
                 next, chunkResults, totalSimilarity, totalChunks, strategy,
                 similarityAvg>>

NoArg == "<absent>"

RequestVersions == {"2025-06-18", "draft", "2024-11-05", "9999-99-99"}

TopKs == (-1)..MaxTopK

\* the key the handler reads and the key of the usage example
TopKNames == {"topK", "top_k"}

NoContent == [len |-> 0, blank |-> TRUE]

\* the params entry "top_k" of the usage example, which no handler reads
NoTopK == [given |-> FALSE, value |-> 0]

Request(tool, content, specVersion, useChunking, code, language, topK, top_k) ==
    [tool |-> tool, content |-> content, specVersion |-> specVersion,
     useChunking |-> useChunking, code |-> code, language |-> language,
     topK |-> topK, top_k |-> top_k]

ErrorResponse(msg) == [kind |-> "error", err |-> msg]

Outcome(text, embedded, found) ==
    [text |-> text, embedErr |-> embedded.err, vec |-> embedded.vec,
     searchErr |-> found.err, results |-> found.results]

NoSearch == [err |-> "", panic |-> FALSE, results |-> <<>>]

NoCall == [op |-> "none"]

\* the data directory with the corpus vecs for the default version and an
\* undecodable file for "draft"
DataDir(vecs) ==
    [v \in {"2025-06-18", "draft"} |->
        IF v = "draft" THEN MalformedFile ELSE OkFile(MkCorpus(v, vecs))]

\* a server that has served no request yet
Idle ==
    /\ pc = "idle"
    /\ req = Request("none", NoContent, DefaultSpecVersion, FALSE, {}, "go", 0,
                     NoTopK)
    /\ resp = [kind |-> "none"]
    /\ providerCalls = 0
    /\ storeLoads = 0
    /\ outcomes = <<>>
    /\ chunks = <<>>
    /\ next = 0
    /\ chunkResults = <<>>
    /\ totalSimilarity = Zero
    /\ totalChunks = 0
    /\ strategy = ""
    /\ similarityAvg = <<>>
    /\ cancelled = FALSE

\* the goroutines that use the debug server: two tool calls that record an
\* interaction, one HTTP request, one WebSocket connection
Adders == {"tool1", "tool2"}

Goroutines == Adders \cup {"http", "ws"}

\* NewDebugServer
NewDebugServer ==
    /\ ds = [mu |-> [writer |-> "none", readers |-> {}],
             interactions |-> <<>>,
             stats |-> [TotalInteractions |-> 0],
             clients |-> {}]
    /\ handler = [g \in Goroutines |-> "idle"]
    /\ sent = [g \in Goroutines |-> <<>>]

Init ==
    /\ \E vecs \in VecSeqs : files = DataDir(vecs)
    /\ Idle
    /\ NewDebugServer
    /\ call = NoCall
    /\ ret = NoCall

\* the locals of HandleChunkedValidation before its loop
ResetChunking ==
    /\ chunks' = <<>>
    /\ next' = 0
    /\ chunkResults' = <<>>
    /\ totalSimilarity' = Zero
    /\ totalChunks' = 0

WithDefault(arg, default) == IF arg = NoArg THEN default ELSE arg


\* ----------------------------------------------------- single-unit pipeline
\* avgSimilarity := totalSimilarity / float64(len(results)), for the span
RetrievalAvg(results) ==
    RatDivInt(SumSimilarity(results, Len(results)), Len(results))

\* handleSingleValidation: embed, search with topK 5, analyze, format
handleSingleValidation(content, specVersion) ==
    \E e \in EmbedOutcomes :
        /\ providerCalls' = 1
        /\ IF e.err # ""
           THEN /\ storeLoads' = 0
                /\ outcomes' = <<Outcome(content, e, NoSearch)>>
                /\ similarityAvg' = <<>>
                /\ resp' = ErrorResponse("failed to generate content embedding")
           ELSE \E f \in Search(files, specVersion, e.vec, ContentTopK) :
                /\ storeLoads' = 1
                /\ outcomes' = <<Outcome(content, e, f)>>
                /\ similarityAvg' = IF f.err # "" THEN <<>>
                                    ELSE <<RetrievalAvg(f.results)>>
                /\ resp' =
                     IF f.err # ""
                     THEN ErrorResponse("failed to search specifications")
                     ELSE FormatValidationResult(
                            analyzeContentValidation(f.results, specVersion),
                            summarizeContentMatches(f.results,
                                                    ContentMaxMatches))

\* ------------------------------------------------------- chunked validation
ChunkEntryShared(chunk, validation, matches, error) ==
    [Chunk |-> chunk, Validation |-> validation,
     Matches |-> (IF chunkResults = <<>> THEN <<>>
                  ELSE chunkResults[Len(chunkResults)].Matches) \o matches,
     Error |-> error]

ChunkEntry(chunk, validation, matches, error) ==
    [Chunk |-> chunk, Validation |-> validation, Matches |-> matches,
     Error |-> error]

AppendResultFront(results, entry) == <<entry>> \o results

\* chunkResults = append(chunkResults, entry)
AppendResult(results, entry) == Append(results, entry)

\* the continue after a failed chunk goes on with the next chunk
AfterChunkErrorAbort(position, n) == n + 1

AfterChunkError(position, n) == position + 1

AvgConfidenceSum(total, count) == total

\* avgConfidence := totalSimilarity / float64(totalChunks)
AvgConfidence(total, count) == RatDivInt(total, count)

OverallIsValidGE(avgConfidence) == RatGE(avgConfidence, Threshold07)

\* IsValid: avgConfidence > 0.7
OverallIsValid(avgConfidence) == RatGT(avgConfidence, Threshold07)

OverallValidation(avgConfidence, specVersion) ==
    LET isValid == OverallIsValid(avgConfidence)
    IN  ValidationResult(isValid, avgConfidence,
            IF isValid THEN <<>>
            ELSE <<"chunks analyzed with average confidence">> \o
                 (IF RatLT(avgConfidence, Threshold05)
                  THEN <<"Multiple sections show low alignment with MCP specification">>
                  ELSE <<>>),
            IF isValid THEN <<>>
            ELSE <<"Review flagged sections against MCP specification",
                   "Consider using standard MCP terminology throughout">>,
            specVersion)

Aggregated(results, total, count, specVersion) ==
    [ChunkResults |-> results,
     Overall |-> OverallValidation(AvgConfidence(total, count), specVersion),
     SpecVersion |-> specVersion]

\* HandleChunkedValidation up to its loop
StartChunkedValidation(content, specVersion) ==
    \E cs \in ChunkContent(content) :
        /\ providerCalls' = 0
        /\ storeLoads' = 0
        /\ outcomes' = <<>>
        /\ similarityAvg' = <<>>
        /\ chunkResults' = <<>>
        /\ totalSimilarity' = Zero
        /\ totalChunks' = 0
        /\ chunks' = cs
        /\ IF Len(cs) = 0
           THEN /\ resp' = ErrorResponse("no valid chunks found in content")
                /\ next' = 0
                /\ pc' = "done"
           ELSE /\ resp' = [kind |-> "none"]
                /\ next' = 1
                /\ pc' = "chunkLoop"

\* var avgSimilarity float64, set only if len(results) > 0
ChunkRetrievalAvg(results) ==
    IF Len(results) > 0
    THEN RatDivInt(SumSimilarity(results, Len(results)), Len(results))
    ELSE Zero

\* One pass of the loop over the chunks; the pass that ends the loop also
\* aggregates, formats and returns.
ChunkStep ==
    /\ pc = "chunkLoop"
    /\ next <= Len(chunks)
    /\ \E e \in EmbedOutcomes :
       \E f \in (IF e.err # "" THEN {NoSearch}
                 ELSE Search(files, req.specVersion, e.vec, ChunkTopK)) :
          LET chunk == chunks[next]
              failed == e.err # "" \/ f.err # ""
              entry ==
                 IF e.err # ""
                 THEN ChunkEntry(chunk, NoValidation, <<>>,
                                 "failed to generate embedding")
                 ELSE IF f.err # ""
                 THEN ChunkEntry(chunk, NoValidation, <<>>,
                                 "failed to search specifications")
                 ELSE ChunkEntry(chunk,
                         analyzeChunkValidation(f.results, req.specVersion),
                         summarizeChunkMatches(f.results, ChunkMaxMatches),
                         "")
              results == AppendResult(chunkResults, entry)
              total == IF failed THEN totalSimilarity
                       ELSE RatAdd(totalSimilarity, entry.Validation.Confidence)
              count == IF failed THEN totalChunks ELSE totalChunks + 1
              position == IF failed THEN AfterChunkError(next, Len(chunks))
                          ELSE next + 1
          IN  /\ providerCalls' = providerCalls + 1
              /\ storeLoads' = IF e.err # "" THEN storeLoads ELSE storeLoads + 1
              /\ outcomes' = Append(outcomes, Outcome(chunk.Text, e, f))
              /\ similarityAvg' = IF failed THEN similarityAvg
                                  ELSE Append(similarityAvg,
                                              ChunkRetrievalAvg(f.results))
              /\ chunkResults' = results
              /\ totalSimilarity' = total
              /\ totalChunks' = count
              /\ next' = position
              /\ IF position > Len(chunks)
                 THEN /\ pc' = "done"
                      /\ resp' = FormatChunkedValidationResult(
                                    Aggregated(results, total, count,
                                               req.specVersion))
                 ELSE /\ pc' = "chunkLoop"
                      /\ resp' = resp
    /\ UNCHANGED <<files, req, chunks, strategy, call, ret, cancelled,
                   debugVars>>

\* ----------------------------------------------------------------- handlers
\* The handlers keep nothing between calls and never write the data
\* directory, so a behaviour serves one request from the idle state.
Reject(msg) ==
    /\ resp' = ErrorResponse(msg)
    /\ pc' = "done"
    /\ providerCalls' = 0
    /\ storeLoads' = 0
    /\ outcomes' = <<>>
    /\ similarityAvg' = <<>>
    /\ ResetChunking

ShouldChunkFrom(useChunking, content) ==
    useChunking \/ content.len >= ChunkThreshold

\* shouldChunk := useChunking || len(content) > 500
ShouldChunk(useChunking, content) ==
    useChunking \/ content.len > ChunkThreshold

HandleValidateContent(content, versionArg, useChunking) ==
    /\ pc = "idle"
    /\ call = NoCall
    /\ LET specVersion == WithDefault(versionArg, DefaultSpecVersion)
       IN  /\ req' = Request("validate_content", content, specVersion,
                             useChunking, {}, "go", 0, NoTopK)
           /\ IF ~IsValidSpecVersion(specVersion)
              THEN /\ Reject("invalid spec version")
                   /\ strategy' = ""
              ELSE IF ShouldChunk(useChunking, content)
              THEN /\ strategy' = "chunked"
                   /\ StartChunkedValidation(content, specVersion)
              ELSE /\ strategy' = "single"
                   /\ handleSingleValidation(content, specVersion)
                   /\ pc' = "done"
                   /\ ResetChunking
    /\ UNCHANGED <<files, call, ret, cancelled, debugVars>>

HandleValidateCode(code, versionArg, languageArg) ==
    /\ pc = "idle"
    /\ call = NoCall
    /\ LET specVersion == WithDefault(versionArg, DefaultSpecVersion)
           language == WithDefault(languageArg, "go")
       IN  /\ req' = Request("validate_code", NoContent, specVersion, FALSE,
                             code, language, 0, NoTopK)
           /\ IF ~IsValidSpecVersion(specVersion)
              THEN Reject("invalid spec version")
              ELSE \E codeAnalysis \in analyzeCodeForMCPPatterns(code, language) :
                   \E e \in EmbedOutcomes :
                      /\ pc' = "done"
                      /\ ResetChunking
                      /\ similarityAvg' = <<>>
                      /\ providerCalls' = 1
                      /\ IF e.err # ""
                         THEN /\ storeLoads' = 0
                              /\ outcomes' = <<Outcome(codeAnalysis, e, NoSearch)>>
                              /\ resp' = ErrorResponse(
                                     "failed to generate code embedding")
                         ELSE \E f \in Search(files, specVersion, e.vec, CodeTopK) :
                              /\ storeLoads' = 1
                              /\ outcomes' = <<Outcome(codeAnalysis, e, f)>>
                              /\ resp' =
                                   IF f.err # ""
                                   THEN ErrorResponse(
                                          "failed to search specifications")
                                   ELSE FormatValidationResult(
                                          analyzeCodeValidation(codeAnalysis,
                                              f.results, specVersion),
                                          summarizeCodeMatches(f.results,
                                                               CodeMaxMatches))
    /\ UNCHANGED <<files, strategy, call, ret, cancelled, debugVars>>

SearchPart(match) ==
    [Rank |-> match.Rank, Similarity |-> match.Similarity,
     Content |-> match.Chunk.ID]

\* topKName is the params key under which the caller gives k, if any
HandleSearchSpec(query, versionArg, topKName, k) ==
    /\ pc = "idle"
    /\ call = NoCall
    /\ LET specVersion == WithDefault(versionArg, DefaultSpecVersion)
           topK == IF topKName = "topK" THEN k ELSE DefaultTopK
           top_k == IF topKName = "top_k" THEN [given |-> TRUE, value |-> k]
                    ELSE NoTopK
       IN  /\ req' = Request("search_spec", query, specVersion, FALSE, {},
                             "go", topK, top_k)
           /\ IF ~IsValidSpecVersion(specVersion)
              THEN Reject("invalid spec version")
              ELSE \E e \in EmbedOutcomes :
                      /\ pc' = "done"
                      /\ ResetChunking
                      /\ similarityAvg' = <<>>
                      /\ providerCalls' = 1
                      /\ IF e.err # ""
                         THEN /\ storeLoads' = 0
                              /\ outcomes' = <<Outcome(query, e, NoSearch)>>
                              /\ resp' = ErrorResponse(
                                     "failed to generate query embedding")
                         ELSE \E f \in Search(files, specVersion, e.vec, topK) :
                              /\ storeLoads' = 1
                              /\ outcomes' = <<Outcome(query, e, f)>>
                              /\ resp' =
                                   IF f.panic THEN [kind |-> "panic"]
                                   ELSE IF f.err # ""
                                   THEN ErrorResponse(
                                          "failed to search specifications")
                                   ELSE [kind |-> "search",
                                         parts |-> [i \in 1..Len(f.results) |->
                                                     SearchPart(f.results[i])]]
    /\ UNCHANGED <<files, strategy, call, ret, cancelled, debugVars>>

Next ==
    \/ \E content \in Contents, versionArg \in RequestVersions \cup {NoArg},
          useChunking \in BOOLEAN :
          HandleValidateContent(content, versionArg, useChunking)
    \/ ChunkStep
    \/ \E code \in SUBSET Keywords, versionArg \in RequestVersions \cup {NoArg},
          languageArg \in Languages \cup {NoArg} :
          HandleValidateCode(code, versionArg, languageArg)
    \/ \E versionArg \in RequestVersions \cup {NoArg},
          topKName \in TopKNames \cup {NoArg}, k \in TopKs :
          HandleSearchSpec([len |-> 4, blank |-> FALSE], versionArg, topKName,
                           k)

Spec == Init /\ [][Next]_vars

\* ------------------------------------------------------------- cancellation
\* The context that HandleValidateContent is given can be cancelled by the
\* caller, or time out, while the chunk loop runs.  The loop uses it for its
\* spans only, and GenerateEmbedding calls the provider with
\* context.Background().
Cancel ==
    /\ pc = "chunkLoop"
    /\ ~cancelled
    /\ cancelled' = TRUE
    /\ UNCHANGED <<files, requestVars, call, ret, debugVars>>

InitCancel ==
    /\ files = DataDir(<<Vec(<<3, 4>>)>>)
    /\ Idle
    /\ NewDebugServer
    /\ call = NoCall
    /\ ret = NoCall

NextCancel ==
    \/ \E content \in Contents, useChunking \in BOOLEAN :
          HandleValidateContent(content, NoArg, useChunking)
    \/ ChunkStep
    \/ Cancel

CancelSpec == InitCancel /\ [][NextCancel]_vars

\* ------------------------------------------------------------- debug server
\* The tool middleware records each tool call with AddInteraction while the
\* HTTP and WebSocket handlers of the debug server run in goroutines of their
\* own.  ds.mu is a sync.RWMutex: one writer, or any number of readers.
toolVars == <<files, requestVars, call, ret, cancelled>>

MuFree == ds.mu.writer = "none" /\ ds.mu.readers = {}

At(g, where) == [handler EXCEPT ![g] = where]

\* ds.mu.Lock() at the head of AddInteraction
AddInteractionLock(g) ==
    /\ handler[g] = "idle"
    /\ ds.stats.TotalInteractions < MaxInteractions
    /\ MuFree
    /\ ds' = [ds EXCEPT !.mu.writer = g]
    /\ handler' = At(g, "append")
    /\ UNCHANGED <<sent, toolVars>>

\* append, keep the last 100, update the stats
AddInteractionAppend(g) ==
    /\ handler[g] = "append"
    /\ LET interaction == [ID |-> ds.stats.TotalInteractions + 1,
                           ToolName |-> g]
           appended == Append(ds.interactions, interaction)
       IN  ds' = [ds EXCEPT
                    !.interactions = IF Len(appended) > KeepLast
                                     THEN Tail(appended) ELSE appended,
                    !.stats.TotalInteractions = @ + 1]
    /\ handler' = At(g, "broadcast")
    /\ UNCHANGED <<sent, toolVars>>

\* broadcastInteraction, then the deferred ds.mu.Unlock(): a client whose
\* write fails is deleted and closed
AddInteractionBroadcast(g) ==
    /\ handler[g] = "broadcast"
    /\ \E failed \in SUBSET ds.clients :
          /\ ds' = [ds EXCEPT !.clients = @ \ failed, !.mu.writer = "none"]
          /\ sent' = [c \in Goroutines |->
                        IF c \in ds.clients \ failed
                        THEN Append(sent[c],
                                    ds.interactions[Len(ds.interactions)])
                        ELSE sent[c]]
    /\ handler' = At(g, "idle")
    /\ UNCHANGED toolVars

\* ds.mu.RLock() at the head of handleInteractions and handleLatest
HandleRLock(g, endpoint) ==
    /\ handler[g] = "idle"
    /\ ds.mu.writer = "none"
    /\ ds' = [ds EXCEPT !.mu.readers = @ \cup {g}]
    /\ handler' = At(g, endpoint)
    /\ UNCHANGED <<sent, toolVars>>

\* the body of handleInteractions or handleLatest, then the deferred RUnlock
HandleEncode(g) ==
    /\ handler[g] \in {"interactions", "latest"}
    /\ sent' = [sent EXCEPT ![g] =
                 IF handler[g] = "interactions" THEN ds.interactions
                 ELSE IF Len(ds.interactions) = 0 THEN <<>>
                 ELSE <<ds.interactions[Len(ds.interactions)]>>]
    /\ ds' = [ds EXCEPT !.mu.readers = @ \ {g}]
    /\ handler' = At(g, "idle")
    /\ UNCHANGED toolVars

\* handleWebSocket after the upgrade: ds.mu.Lock()
WebSocketLock(g) ==
    /\ handler[g] = "idle"
    /\ MuFree
    /\ ds' = [ds EXCEPT !.mu.writer = g]
    /\ sent' = [sent EXCEPT ![g] = <<>>]
    /\ handler' = At(g, "register")
    /\ UNCHANGED toolVars

\* ds.clients[conn] = true; ds.mu.Unlock()
WebSocketRegister(g) ==
    /\ handler[g] = "register"
    /\ ds' = [ds EXCEPT !.clients = @ \cup {g}, !.mu.writer = "none"]
    /\ handler' = At(g, "history")
    /\ UNCHANGED <<sent, toolVars>>

\* a slice header read while AddInteraction assigns it: pointer, length and
\* capacity need not belong together
TornRead == <<[ID |-> 0, ToolName |-> "torn"]>>

\* what range ds.interactions sees; the lock is not held, so the read can
\* run while an AddInteraction is between its Lock and its assignment
HistoryRead ==
    IF \E a \in Adders : handler[a] = "append"
    THEN {ds.interactions, TornRead}
    ELSE {ds.interactions}

\* the loop that sends the existing interactions to the new connection
WebSocketHistory(g) ==
    /\ handler[g] = "history"
    /\ \E history \in HistoryRead :
          sent' = [sent EXCEPT ![g] = @ \o history]
    /\ handler' = At(g, "readLoop")
    /\ UNCHANGED <<ds, toolVars>>

\* conn.ReadMessage fails: ds.mu.Lock()
WebSocketReadError(g) ==
    /\ handler[g] = "readLoop"
    /\ MuFree
    /\ ds' = [ds EXCEPT !.mu.writer = g]
    /\ handler' = At(g, "unregister")
    /\ UNCHANGED <<sent, toolVars>>

\* delete(ds.clients, conn); ds.mu.Unlock(); the handler returns
WebSocketUnregister(g) ==
    /\ handler[g] = "unregister"
    /\ ds' = [ds EXCEPT !.clients = @ \ {g}, !.mu.writer = "none"]
    /\ handler' = At(g, "idle")
    /\ UNCHANGED <<sent, toolVars>>

InitDebug ==
    /\ files = DataDir(<<>>)
    /\ Idle
    /\ NewDebugServer
    /\ call = NoCall
    /\ ret = NoCall

NextDebug ==
    \/ \E g \in Adders : AddInteractionLock(g)
    \/ \E g \in Adders : AddInteractionAppend(g)
    \/ \E g \in Adders : AddInteractionBroadcast(g)
    \/ \E endpoint \in {"interactions", "latest"} : HandleRLock("http", endpoint)
    \/ HandleEncode("http")
    \/ WebSocketLock("ws")
    \/ WebSocketRegister("ws")
    \/ WebSocketHistory("ws")
    \/ WebSocketReadError("ws")
    \/ WebSocketUnregister("ws")

DebugSpec == InitDebug /\ [][NextDebug]_vars

\* ------------------------------------------------ direct use of the library
\* The embed command and the tests call the store and the generator without
\* a tool request: a corpus is stored and then loaded or searched, a
\* similarity is computed, an embedding is generated.
StoreVectors == CorpusVectors \cup {Vec(<<1, 0, 0>>), <<FltNaN, FltZero>>}

\* the embed command stores the version it is given, the test command the
\* corpus labelled "test"
StoreVersions == {"2025-06-18", "2025-03-26", "test"}

StoreInputs ==
    {MkCorpus(v, vecs) :
        v \in StoreVersions,
        vecs \in UNION {[1..n -> StoreVectors] : n \in 0..MaxCorpus}}

LoadVersions == StoreVersions \cup {"draft"}

SearchQueries == QueryVectors \cup {Vec(<<1, 0, 0>>)}

CosineVectors ==
    CorpusVectors \cup QueryVectors \cup
    {Vec(<<0, 0>>), Vec(<<0, 0, 0>>), Vec(<<1, 0, 0>>), Vec(<<1, 2, 2>>),
     Scaled(<<1, 0>>, -1), Scaled(<<3, 4>>, -1), Scaled(<<1, 0>>, 1),
     Scaled(<<0, 1>>, 1)}

StoreCall(specEmbedding) ==
    /\ pc = "idle"
    /\ call = NoCall
    /\ \E o \in Store(files, specEmbedding) :
          /\ files' = o.dir
          /\ ret' = [op |-> "Store", err |-> o.err]
    /\ call' = [op |-> "Store", spec |-> specEmbedding]
    /\ UNCHANGED <<requestVars, cancelled, debugVars>>

LoadCall(version) ==
    /\ pc = "idle"
    /\ call.op = "Store"
    /\ call' = [op |-> "Load", version |-> version, stored |-> call.spec,
                storeErr |-> ret.err]
    /\ ret' = Load(files, version)
    /\ UNCHANGED <<files, requestVars, cancelled, debugVars>>

SearchCall(version, queryEmbedding, topK) ==
    /\ pc = "idle"
    /\ call.op = "Store"
    /\ call' = [op |-> "Search", version |-> version,
                query |-> queryEmbedding, topK |-> topK]
    /\ ret' \in Search(files, version, queryEmbedding, topK)
    /\ UNCHANGED <<files, requestVars, cancelled, debugVars>>

CosineCall(a, b) ==
    /\ pc = "idle"
    /\ call = NoCall
    /\ call' = [op |-> "cosineSimilarity", a |-> a, b |-> b]
    /\ ret' = [op |-> "cosineSimilarity", value |-> cosineSimilarity(a, b)]
    /\ UNCHANGED <<files, requestVars, cancelled, debugVars>>

EmbedCall(script) ==
    /\ pc = "idle"
    /\ call = NoCall
    /\ call' = [op |-> "GenerateEmbedding", script |-> script]
    /\ ret' = GenerateEmbedding(script)
    /\ UNCHANGED <<files, requestVars, cancelled, debugVars>>

\* list_spec_versions: one text part per version that ListVersions finds
HandleListSpecVersions ==
    /\ pc = "idle"
    /\ call.op \in {"none", "Store"}
    /\ call' = [op |-> "list_spec_versions"]
    /\ ret' = [op |-> "list_spec_versions", versions |-> ListVersions(files)]
    /\ UNCHANGED <<files, requestVars, cancelled, debugVars>>

\* validateCode run twice on one submission: each run builds the analysis
\* text that it sends to the embedding provider
AnalyzeCall(code, language) ==
    /\ pc = "idle"
    /\ call = NoCall
    /\ call' = [op |-> "analyzeCodeForMCPPatterns", code |-> code,
                language |-> language]
    /\ \E first \in analyzeCodeForMCPPatterns(code, language),
          second \in analyzeCodeForMCPPatterns(code, language) :
          ret' = [op |-> "analyzeCodeForMCPPatterns", first |-> first,
                  second |-> second]
    /\ UNCHANGED <<files, requestVars, cancelled, debugVars>>

InitLib ==
    /\ files = DataDir(<<>>)
    /\ Idle
    /\ NewDebugServer
    /\ call = NoCall
    /\ ret = NoCall

NextLib ==
    \/ \E specEmbedding \in StoreInputs : StoreCall(specEmbedding)
    \/ \E version \in LoadVersions : LoadCall(version)
    \/ \E version \in LoadVersions, q \in SearchQueries, k \in TopKs :
          SearchCall(version, q, k)
    \/ \E a \in CosineVectors, b \in CosineVectors : CosineCall(a, b)
    \/ \E script \in ProviderScripts : EmbedCall(script)
    \/ HandleListSpecVersions
    \/ \E code \in SUBSET Keywords, language \in Languages :
          AnalyzeCall(code, language)

LibSpec == InitLib /\ [][NextLib]_vars


\* ------------------------------------------------------------------- claims
KnownVersions == {"draft", "2025-06-18", "2025-03-26", "2024-11-05"}

Succeeded(o) == o.embedErr = "" /\ o.searchErr = ""

ChunkedDone ==
    pc = "done" /\ req.tool = "validate_content" /\ Len(chunks) > 0

SingleVerdict(tool) ==
    pc = "done" /\ req.tool = tool /\ resp.kind = "single"

\* the mean of a match list, from the similarities alone
RECURSIVE SimSum(_)
SimSum(results) ==
    IF results = <<>> THEN Zero
    ELSE RatAdd(results[1].Similarity, SimSum(Tail(results)))

MeanOf(results) == RatDivInt(SimSum(results), Len(results))

\* sum and number of the confidences of the entries that carry no error
RECURSIVE ConfSum(_)
ConfSum(entries) ==
    IF entries = <<>> THEN Zero
    ELSE IF entries[1].Error # "" THEN ConfSum(Tail(entries))
    ELSE RatAdd(entries[1].Validation.Confidence, ConfSum(Tail(entries)))

Successes(entries) == {i \in 1..Len(entries) : entries[i].Error = ""}

C2_OverallIsMeanOfSuccesses ==
    (ChunkedDone /\ Successes(chunkResults) # {}) =>
        /\ resp.kind = "chunked"
        /\ RatEq(resp.overall.Confidence,
                 RatDivInt(ConfSum(chunkResults),
                           Cardinality(Successes(chunkResults))))

C2_Witness ==
    /\ ChunkedDone
    /\ resp.kind = "chunked"
    /\ Len(chunks) = 2
    /\ chunkResults[1].Error # ""
    /\ chunkResults[2].Error = ""
    /\ RatGT(chunkResults[2].Validation.Confidence, Zero)
    /\ RatEq(resp.overall.Confidence, chunkResults[2].Validation.Confidence)

\* C3 (as claimed): an aggregated validation returns an error exactly when
\* every chunk errored.
C3_FailsExactlyWhenAllErrored ==
    ChunkedDone =>
        (resp.kind = "error" <=> Successes(chunkResults) = {})

\* C4: a request whose version is not in the known set is rejected as an
\* invalid version with no provider call and no corpus load made for it.
C4_InvalidVersionNoProviderCall ==
    (req.tool # "none" /\ req.specVersion \notin KnownVersions) =>
        /\ pc = "done"
        /\ resp.kind = "error"
        /\ resp.err = "invalid spec version"
        /\ providerCalls = 0
        /\ storeLoads = 0
        /\ outcomes = <<>>

C4_Witness ==
    /\ pc = "done"
    /\ req.tool = "validate_code"
    /\ req.specVersion = "9999-99-99"
    /\ resp.kind = "error"
    /\ providerCalls = 0

\* the topK each handler hands to Search
TopKOf(r) ==
    CASE r.tool = "search_spec" -> r.topK
      [] r.tool = "validate_code" -> CodeTopK
      [] r.tool = "validate_content" /\ Len(chunks) > 0 -> ChunkTopK
      [] OTHER -> ContentTopK

CorpusSize == Len(files[req.specVersion].json.chunks)

\* C5: every search with topK = k >= 0 over a corpus of n chunks returns
\* min(k, n) matches in non-increasing similarity, ranked 1, 2, ... in order.
C5_SearchTopK ==
    \A c \in 1..Len(outcomes) :
        (Succeeded(outcomes[c]) /\ TopKOf(req) >= 0) =>
            LET results == outcomes[c].results
            IN  /\ Len(results) = Min(TopKOf(req), CorpusSize)
                /\ \A i \in 1..Len(results) : results[i].Rank = i
                /\ \A i, j \in 1..Len(results) :
                      i < j => RatGE(results[i].Similarity,
                                     results[j].Similarity)
                /\ req.tool = "search_spec" =>
                      /\ resp.kind = "search"
                      /\ Len(resp.parts) = Len(results)
                      /\ \A i \in 1..Len(results) :
                            resp.parts[i].Rank = i

C5_Witness ==
    /\ pc = "done"
    /\ req.tool = "search_spec"
    /\ req.topK = 1
    /\ resp.kind = "search"
    /\ CorpusSize = 2
    /\ Len(resp.parts) = 1
    /\ RatGT(resp.parts[1].Similarity, Zero)

IsZeroMatchVerdict(v) ==
    /\ RatEq(v.Confidence, Rat(1, 10))
    /\ v.IsValid = FALSE
    /\ Len(v.Issues) > 0

\* C6: with zero matches the content, chunk and code analyzers each return a
\* verdict with confidence 0.1, isValid false and at least one issue.
C6_ZeroMatches ==
    /\ \A i \in 1..Len(chunkResults) :
          (Succeeded(outcomes[i]) /\ outcomes[i].results = <<>>) =>
              /\ chunkResults[i].Error = ""
              /\ IsZeroMatchVerdict(chunkResults[i].Validation)
    /\ (/\ pc = "done"
        /\ req.tool \in {"validate_content", "validate_code"}
        /\ Len(chunks) = 0
        /\ Len(outcomes) = 1
        /\ Succeeded(outcomes[1])
        /\ outcomes[1].results = <<>>) =>
            /\ resp.kind = "single"
            /\ IsZeroMatchVerdict(resp.validation)

C6_Witness ==
    /\ SingleVerdict("validate_code")
    /\ outcomes[1].results = <<>>
    /\ req.code # {}
    /\ resp.validation.IsValid = FALSE

IsContentVerdict(v, results) ==
    /\ RatEq(v.Confidence, MeanOf(results))
    /\ v.IsValid <=> RatGT(MeanOf(results), Rat(7, 10))
    /\ v.IsValid => v.Issues = <<>>

\* C7: for a non-empty match list the content analyzer (single unit and per
\* chunk) reports the mean similarity as confidence, is valid exactly when
\* the mean exceeds 0.7, and a valid verdict has no issues.
C7_ContentVerdict ==
    /\ \A i \in 1..Len(chunkResults) :
          (Succeeded(outcomes[i]) /\ outcomes[i].results # <<>>) =>
              IsContentVerdict(chunkResults[i].Validation, outcomes[i].results)
    /\ (SingleVerdict("validate_content") /\ outcomes[1].results # <<>>) =>
          IsContentVerdict(resp.validation, outcomes[1].results)

C7_Witness ==
    /\ SingleVerdict("validate_content")
    /\ Len(outcomes[1].results) = 2
    /\ RatEq(resp.validation.Confidence, Rat(7, 10))
    /\ resp.validation.IsValid = FALSE

\* C8 (as claimed): a valid code verdict has confidence > 0.6 and at least one
\* detected pattern.
C8_ValidNeedsConfidenceAbove06 ==
    (SingleVerdict("validate_code") /\ resp.validation.IsValid) =>
        /\ RatGT(resp.validation.Confidence, Rat(6, 10))
        /\ Len(DetectedPatterns(outcomes[1].text)) >= 1

\* C8 (amended): a valid code verdict has a mean match similarity > 0.6 and at
\* least one detected pattern; its confidence is that mean times the
\* detected-pattern count over 3.
C8_ValidNeedsMeanAbove06 ==
    SingleVerdict("validate_code") =>
        /\ resp.validation.IsValid =>
              /\ RatGT(MeanOf(outcomes[1].results), Rat(6, 10))
              /\ Len(DetectedPatterns(outcomes[1].text)) >= 1
        /\ outcomes[1].results # <<>> =>
              RatEq(resp.validation.Confidence,
                    RatMul(MeanOf(outcomes[1].results),
                           Rat(Len(DetectedPatterns(outcomes[1].text)), 3)))

C8_Witness ==
    /\ SingleVerdict("validate_code")
    /\ resp.validation.IsValid
    /\ Len(DetectedPatterns(outcomes[1].text)) = 1
    /\ RatLE(resp.validation.Confidence, Rat(6, 10))

InUnitInterval(x) == RatGE(x, Zero) /\ RatLE(x, Rat(1, 1))

\* C9 (as claimed): every returned verdict, single-unit, code, per-chunk and
\* overall, has a confidence within [0, 1].
C9_ConfidenceInUnitInterval ==
    /\ (pc = "done" /\ resp.kind = "single") =>
          InUnitInterval(resp.validation.Confidence)
    /\ (pc = "done" /\ resp.kind = "chunked") =>
          /\ InUnitInterval(resp.overall.Confidence)
          /\ \A i \in Successes(resp.chunk_details) :
                InUnitInterval(resp.chunk_details[i].Validation.Confidence)

\* C10 (as claimed): a validate_content request with empty or whitespace-only
\* content ends in an error without any provider call.
C10_BlankContentRejected ==
    (req.tool = "validate_content" /\ req.content.blank) =>
        /\ pc = "done"
        /\ resp.kind = "error"
        /\ providerCalls = 0

\* C11: the entries collected so far sit in chunk position order, the i-th
\* entry being that of the chunk with position i - 1, and when the loop has
\* ended there is one entry for each of the positions 0..n-1, whichever
\* chunks failed; a formatted aggregate lists them in that order.
C11_EntriesInPositionOrder ==
    /\ \A i \in 1..Len(chunks) : chunks[i].Position = i - 1
    /\ \A i \in 1..Len(chunkResults) : chunkResults[i].Chunk.Position = i - 1
    /\ ChunkedDone =>
          /\ Len(chunkResults) = Len(chunks)
          /\ resp.kind = "chunked" =>
                \A i \in 1..Len(resp.chunk_details) :
                    resp.chunk_details[i].Chunk.Position = i - 1

C11_Witness ==
    /\ ChunkedDone
    /\ resp.kind = "chunked"
    /\ Len(resp.chunk_details) = 2
    /\ resp.chunk_details[1].Error = ""
    /\ resp.chunk_details[2].Error # ""
    /\ resp.chunk_details[2].Chunk.Position = 1

\* C12: an aggregate's overall verdict is valid exactly when the mean
\* confidence of the entries without error exceeds 0.7; with no such entry no
\* valid overall verdict is returned.
C12_OverallValidAboveThreshold ==
    ChunkedDone =>
        /\ resp.kind = "chunked" =>
              (resp.overall.IsValid <=>
                  RatGT(RatDivInt(ConfSum(chunkResults),
                                  Cardinality(Successes(chunkResults))),
                        Rat(7, 10)))
        /\ Successes(chunkResults) = {} =>
              ~(resp.kind = "chunked" /\ resp.overall.IsValid)

C12_Witness ==
    /\ ChunkedDone
    /\ resp.kind = "chunked"
    /\ Len(chunkResults) = 2
    /\ RatEq(chunkResults[1].Validation.Confidence, Rat(6, 10))
    /\ RatEq(chunkResults[2].Validation.Confidence, Rat(8, 10))
    /\ RatEq(resp.overall.Confidence, Rat(7, 10))
    /\ resp.overall.IsValid = FALSE

CorpusUnreadable(version) ==
    version \notin DOMAIN files \/ files[version].state = "malformed"

SingleUnitDone ==
    /\ pc = "done"
    /\ req.specVersion \in KnownVersions
    /\ \/ req.tool = "validate_code"
       \/ req.tool = "validate_content" /\ strategy = "single"

\* C13: a single-unit validation (validate_code, or validate_content on its
\* single path) whose embedding call or search failed, or whose corpus file
\* is missing or malformed, returns an error and no verdict.
C13_SingleUnitFailureAborts ==
    SingleUnitDone =>
        /\ Len(outcomes) = 1
        /\ (\/ outcomes[1].embedErr # ""
            \/ outcomes[1].searchErr # ""
            \/ CorpusUnreadable(req.specVersion)) => resp.kind = "error"

C13_Witness ==
    /\ SingleUnitDone
    /\ req.tool = "validate_code"
    /\ req.specVersion = "2024-11-05"
    /\ req.specVersion \notin DOMAIN files
    /\ outcomes[1].embedErr = ""
    /\ resp.kind = "error"

\* the entry of a chunk, from that chunk, the outcome of its own embedding
\* call and search, and the requested version
EntryOf(chunk, o, specVersion) ==
    IF o.embedErr # ""
    THEN [Chunk |-> chunk, Validation |-> NoValidation, Matches |-> <<>>,
          Error |-> "failed to generate embedding"]
    ELSE IF o.searchErr # ""
    THEN [Chunk |-> chunk, Validation |-> NoValidation, Matches |-> <<>>,
          Error |-> "failed to search specifications"]
    ELSE [Chunk |-> chunk,
          Validation |-> analyzeChunkValidation(o.results, specVersion),
          Matches |-> summarizeChunkMatches(o.results, ChunkMaxMatches),
          Error |-> ""]

\* C14: at every point of the chunk loop each entry is determined by its own
\* chunk, the outcome of that chunk's embedding call and search, and the
\* requested version; nothing of another chunk enters it, and a later chunk
\* does not alter it.
C14_ChunkIndependence ==
    (req.tool = "validate_content" /\ Len(chunks) > 0) =>
        /\ Len(chunkResults) = Len(outcomes)
        /\ \A i \in 1..Len(chunkResults) :
              /\ outcomes[i].text = chunks[i].Text
              /\ chunkResults[i] =
                    EntryOf(chunks[i], outcomes[i], req.specVersion)

C14_Witness ==
    /\ ChunkedDone
    /\ Len(chunkResults) = 2
    /\ chunkResults[1].Error = ""
    /\ chunkResults[2].Error = ""
    /\ Len(chunkResults[1].Matches) = 2
    /\ Len(chunkResults[2].Matches) = 2
    /\ chunkResults[1].Matches # chunkResults[2].Matches

\* C15 (as claimed): matches of equal similarity come back in corpus order.
C15_StableTieBreak ==
    \A c \in 1..Len(outcomes) :
        Succeeded(outcomes[c]) =>
            \A i, j \in 1..Len(outcomes[c].results) :
                (/\ i < j
                 /\ RatEq(outcomes[c].results[i].Similarity,
                          outcomes[c].results[j].Similarity)) =>
                    outcomes[c].results[i].Chunk.ID
                        < outcomes[c].results[j].Chunk.ID

\* C16 (as claimed): a search whose query has another number of components
\* than some chunk of the stored corpus returns an error, and no returned
\* match has an embedding of another dimension than the query.
C16_DimensionMismatchIsError ==
    (/\ call.op = "Search"
     /\ call.topK >= 1
     /\ call.version \in DOMAIN files
     /\ files[call.version].state = "ok") =>
        /\ (\E i \in 1..Len(files[call.version].json.chunks) :
               Len(files[call.version].json.chunks[i].embedding)
                   # Len(call.query)) => ret.err # ""
        /\ \A i \in 1..Len(ret.results) :
              Len(ret.results[i].Chunk.Embedding) = Len(call.query)

IsZeroVector(v) == \A i \in 1..Len(v) : v[i].m = 0

\* C17 (as claimed): cosineSimilarity is 0 when either vector is the zero
\* vector and 1 for a vector that is not the zero vector against itself.
C17_CosineZeroAndSelf ==
    call.op = "cosineSimilarity" =>
        /\ (IsZeroVector(call.a) \/ IsZeroVector(call.b)) => ret.value = Zero
        /\ (call.a = call.b /\ ~IsZeroVector(call.a)) =>
              RatEq(ret.value, Rat(1, 1))

ContentDispatched ==
    /\ pc # "idle"
    /\ req.tool = "validate_content"
    /\ req.specVersion \in KnownVersions

\* C19 (as claimed): a validate_content request with a known version takes
\* the single-unit path exactly when chunking was not requested and the
\* content is shorter than 500, and the chunked path otherwise.
C19_SingleBelowThreshold ==
    ContentDispatched =>
        /\ strategy \in {"single", "chunked"}
        /\ strategy = "single" <=>
              (~req.useChunking /\ req.content.len < 500)

\* C19 (amended): a validate_content request with a known version takes the
\* single-unit path, with one provider call and no chunking, exactly when
\* chunking was not requested and len(content) is at most 500, and the
\* chunked path otherwise.
C19_SingleUpToThreshold ==
    ContentDispatched =>
        /\ strategy \in {"single", "chunked"}
        /\ strategy = "single" <=>
              (~req.useChunking /\ req.content.len <= 500)
        /\ strategy = "single" =>
              /\ pc = "done"
              /\ chunks = <<>>
              /\ chunkResults = <<>>
              /\ providerCalls = 1
              /\ resp.kind # "chunked"
        /\ strategy = "chunked" =>
              /\ resp.kind # "single"
              /\ Len(chunks) = 0 => (resp.kind = "error" /\ providerCalls = 0)

C19_Witness ==
    /\ ContentDispatched
    /\ pc = "done"
    /\ strategy = "single"
    /\ ~req.useChunking
    /\ req.content.len = 500
    /\ resp.kind = "single"

Transient(response) == response.status \in {"timeout", "5xx"}

\* C20 (as claimed): when the first attempt of an embedding call fails with a
\* timeout or a 5xx, a second attempt is made, and if that one succeeds its
\* vector is returned without error.
C20_RetriesOnceOnTransient ==
    (call.op = "GenerateEmbedding" /\ Transient(call.script[1])) =>
        /\ ret.attempts = 2
        /\ (call.script[2].status = "ok" /\ Len(call.script[2].data) > 0) =>
              /\ ret.err = ""
              /\ ret.vec = call.script[2].data[1]

HasIssues(v) == v.IsValid \/ Len(v.Issues) > 0

\* C25: every returned verdict with isValid false, from the content, chunk,
\* code or aggregate analyzer, lists at least one issue.
C25_InvalidVerdictHasIssues ==
    /\ (pc = "done" /\ resp.kind = "single") => HasIssues(resp.validation)
    /\ (pc = "done" /\ resp.kind = "chunked") =>
          /\ HasIssues(resp.overall)
          /\ \A i \in Successes(resp.chunk_details) :
                HasIssues(resp.chunk_details[i].Validation)

\* the patterns that the keywords of the code alone account for
CodePatterns(code) ==
    (IF "json-rpc" \in code THEN <<"JSON-RPC">> ELSE <<>>) \o
    (IF "tools" \in code THEN <<"MCP tools">> ELSE <<>>) \o
    (IF "server" \in code THEN <<"MCP server">> ELSE <<>>)

\* C26: a code verdict counts exactly the patterns whose keyword the code
\* contains, so isValid and confidence follow from the code and the match
\* list, whatever the language argument.
C26_PatternsFromCodeAlone ==
    (SingleVerdict("validate_code") /\ outcomes[1].results # <<>>) =>
        LET counted == CodePatterns(req.code)
            mean == MeanOf(outcomes[1].results)
        IN  /\ DetectedPatterns(outcomes[1].text) = counted
            /\ RatEq(resp.validation.Confidence,
                     RatMul(mean, Rat(Len(counted), 3)))
            /\ resp.validation.IsValid <=>
                  (RatGT(mean, Rat(6, 10)) /\ Len(counted) > 0)

\* C28: a search_spec request ends with a result list or an error value for
\* every topK, zero, negative and above the advertised maximum included.
C28_SearchNeverAborts ==
    (pc = "done" /\ req.tool = "search_spec") =>
        resp.kind \in {"search", "error"}


\* C27: two runs of analyzeCodeForMCPPatterns on the same code and language
\* produce the same analysis text.
C27_SameTextEveryInvocation ==
    call.op = "analyzeCodeForMCPPatterns" => ret.first = ret.second

\* C29: every version that listVersions returns is accepted as a known
\* version by the validation and search handlers.
C29_ListedVersionsAccepted ==
    call.op = "list_spec_versions" =>
        \A version \in ret.versions : IsValidSpecVersion(version)

\* C23: a search_spec call that gives the number of results as top_k returns
\* at most that many matches.
C23_TopKArgumentHonoured ==
    (/\ pc = "done"
     /\ req.tool = "search_spec"
     /\ req.top_k.given
     /\ req.top_k.value >= 1
     /\ resp.kind = "search") =>
        Len(resp.parts) <= req.top_k.value

\* C24: no retrieval span of a validation request carries a mean taken over
\* an empty match list (the sum 0 divided by the count 0).
C24_NoMeanOverEmptyMatches ==
    \A i \in 1..Len(similarityAvg) : ~IsNaN(similarityAvg[i])

\* C21: once the caller's context is done during an aggregated validation, no
\* further embedding call is started, and the request ends with a partial
\* aggregate, marked incomplete, of the chunk results collected so far.
C21_CancelAbandonsChunkWork ==
    [][cancelled =>
          /\ providerCalls' = providerCalls
          /\ pc' = "done" =>
                /\ resp'.kind = "chunked"
                /\ "incomplete" \in DOMAIN resp'
                /\ resp'.chunk_details = chunkResults]_vars

HoldsLock(g) == ds.mu.writer = g \/ g \in ds.mu.readers

\* the goroutine's next statement reads or writes ds.interactions
AccessesList(g) ==
    handler[g] \in {"append", "broadcast", "interactions", "latest", "history"}

\* C30: a goroutine of the debug server reads or writes the interaction list
\* only while it holds the server's lock, so no handler reads the list while
\* an AddInteraction is modifying it.
C30_ListAccessUnderLock ==
    /\ \A g \in Goroutines : AccessesList(g) => HoldsLock(g)
    /\ \A a \in Adders : \A g \in Goroutines \ {a} :
          handler[a] = "append" => ~AccessesList(g)

============================================================================
